---- MODULE Spec2Model ----
(***************************************************************************)
(* A model of ChromeController/transport.py: the process-wide set of       *)
(* claimed debug ports (ACTIVE_PORTS) and the ChromeExecutionManager       *)
(* objects that claim them, launch and shut down a browser process, bind   *)
(* tab keys to remote tabs, keep one websocket per tab key, and exchange   *)
(* messages through a pending buffer.                                      *)
(*                                                                         *)
(* Python values are encoded as follows.  port = None and a missing        *)
(* self.port attribute are both PortNone.  A missing self.cr_proc is       *)
(* "unset".  dicts are TLA+ functions whose DOMAIN is the key set.  An     *)
(* exception is the string of its class name in an "err" field, "" when    *)
(* the call returned normally.                                             *)
(***************************************************************************)
EXTENDS Integers, Sequences, FiniteSets, TLC

\* ---------------------------------------------------------------- bounds
\* Number of manager object slots (a slot is reused after its destructor ran).
NMgr == 2
\* Explicit ports a caller may request: DefaultPort .. DefaultPort + MaxPortOff.
MaxPortOff == 1
\* A connect call meets a browser that omits the websocket endpoint of the
\* first k tabs it creates, k in 0 .. MaxOmit.
MaxOmit == 8
\* A manager reads at most MaxReads messages from its websockets in its lifetime.
MaxReads == 2
\* During one receiving call the peer's script has at most MaxFeed entries.
MaxFeed == 2
\* A receiving call starts with at most MaxBuf entries in the pending buffer.
MaxBuf == 3
\* A manager's send returns at most MaxSends times.
MaxSends == 2
\* The seconds a read that returns a message takes.
MsgDelay == 1
\* The timeouts callers pass to recv and recv_filtered.
ShortTimeout == 1
LongTimeout == 12
\* After a launch at most MaxFails fetches of the tab list fail before one
\* succeeds (from PollAttempts on, none succeeds in time).
MaxFails == 11

\* ------------------------------------------------------ program constants
\* transport.py:52  port = 9222
DefaultPort == 9222
\* transport.py:34  port = None
PortNone == 0
\* transport.py:107  for x in range(10)
PollAttempts == 10
\* transport.py:118  if x > 8: raise e
PollLastIdx == 8
\* transport.py:201  if fails > 6: raise e
ConnectFailMax == 6
\* transport.py:35  websocket_timeout = 10
WebsocketTimeout == 10
\* transport.py:433  def recv(self, tab_key, message_id=None, timeout=30)
DefaultTimeout == 30
\* A message without an "id" key (an event): what `"id" in message` tests.
NoId == -1
\* message_id = None
IdNone == -2

Mgrs == 1 .. NMgr
ExplicitPorts == DefaultPort .. (DefaultPort + MaxPortOff)
ReqPorts == {PortNone} \cup ExplicitPorts

TabKeys == {"A", "B"}

VARIABLES
  ACTIVE_PORTS,  \* the module-level set of claimed ports
  obj,           \* obj[m]: "absent" | "live" (constructed) | "failed" (__init__ raised)
  port,          \* self.port, PortNone while the attribute is not set
  cr_proc,       \* self.cr_proc: "unset" | "running" | "exited"
  tabs,          \* tabs[m]: [tablist, tab_id_map, soclist] of the manager, with the
                 \* browser's own tab list (remote)
  msg_id,        \* self.msg_id
  messages,      \* self.messages, the pending buffer
  sent,          \* sent[m]: the ids send has returned and the tab keys they
                 \* were sent to, in call order
  nread,         \* nread[m]: the number of messages read from the websockets
  init,          \* init[m]: where a running __init__ stands (pc) and its local `port`
  last           \* the last call made and how it ended

msgvars == <<msg_id, messages, sent, nread>>
vars == <<ACTIVE_PORTS, obj, port, cr_proc, tabs, msg_id, messages, sent, nread, init, last>>

\* ------------------------------------------------------------ __init__
\* transport.py:52-54: the scan from `port` upward over the claimed set.
RECURSIVE ScanPort(_, _)
ScanPort(p, active) == IF p \in active THEN ScanPort(p + 1, active) ELSE p

\* A variant of AllocPort that silently moves an explicit request for a
\* claimed port to the next free port.
AllocPortReassign(req, active) ==
  [port |-> ScanPort(IF req = PortNone THEN DefaultPort ELSE req, active), err |-> ""]

\* transport.py:51-57: the port __init__ ends up with, or ReusedPortError.
AllocPort(req, active) ==
  LET p == IF req = PortNone THEN ScanPort(DefaultPort, active) ELSE req
  IN  IF p \in active
      THEN [port |-> PortNone, err |-> "ReusedPortError"]
      ELSE [port |-> p, err |-> ""]

\* transport.py:107-120: the readiness polling.  failsBefore is the number of
\* fetch_tablist calls that raise ChromeConnectFailure before one succeeds,
\* ntabs the length of the first list fetched.
RECURSIVE PollReady(_, _, _)
PollReady(x, failsBefore, ntabs) ==
  IF x >= PollAttempts THEN [err |-> "", fetched |-> FALSE, polls |-> x, sleeps |-> x]
  ELSE IF x < failsBefore
       THEN IF x > PollLastIdx
            THEN [err |-> "ChromeConnectFailure", fetched |-> FALSE,
                  polls |-> x + 1, sleeps |-> x]
            ELSE PollReady(x + 1, failsBefore, ntabs)
       ELSE IF ntabs = 0
            THEN [err |-> "ChromeStartupException", fetched |-> TRUE,
                  polls |-> x + 1, sleeps |-> x]
            ELSE [err |-> "", fetched |-> TRUE, polls |-> x + 1, sleeps |-> x]

\* A variant of _launch_process that takes an empty tab list for a started
\* browser.
LaunchProcessIgnoreEmpty(binaryFound, failsBefore, ntabs) ==
  IF ~binaryFound
  THEN [err |-> "RuntimeError", cr_proc |-> "unset", fetched |-> FALSE,
        polls |-> 0, sleeps |-> 0]
  ELSE LET r == PollReady(0, failsBefore, 1)
       IN  [err |-> r.err, cr_proc |-> "running", fetched |-> r.fetched,
            polls |-> r.polls, sleeps |-> r.sleeps]

\* transport.py:83-120: _launch_process.
LaunchProcess(binaryFound, failsBefore, ntabs) ==
  IF ~binaryFound
  THEN [err |-> "RuntimeError", cr_proc |-> "unset", fetched |-> FALSE,
        polls |-> 0, sleeps |-> 0]
  ELSE LET r == PollReady(0, failsBefore, ntabs)
       IN  [err |-> r.err, cr_proc |-> "running", fetched |-> r.fetched,
            polls |-> r.polls, sleeps |-> r.sleeps]

\* ------------------------------------------------------------------ tabs
\* A tab record of the browser's /json list: its id and whether it carries a
\* webSocketDebuggerUrl.
Tab(id, ws) == [id |-> id, ws |-> ws]

\* The manager's tab state right after the attributes are set (transport.py:67-69).
EmptyDict == [x \in {} |-> 0]
NoTabs == [tablist |-> <<>>, tab_id_map |-> EmptyDict, soclist |-> EmptyDict,
           remote |-> <<>>]

\* The browser as it starts: ntabs tabs, each with an endpoint.
FreshTabs(ntabs) ==
  LET l == [i \in 1 .. ntabs |-> Tab(i - 1, TRUE)]
  IN  [NoTabs EXCEPT !.remote = l]

\* The id the browser gives a new tab.  Ids are opaque to the manager, which
\* only compares the ids it holds (all of listed tabs, the list being fetched
\* again after every create and close) with those of the current list; the
\* browser's fresh id is taken to be the smallest one not in its list.
NewTabId(rem) ==
  LET used == {rem[i].id : i \in 1 .. Len(rem)}
  IN  CHOOSE n \in 0 .. Len(rem) : n \notin used /\ \A j \in 0 .. Len(rem) : j \notin used => n <= j

\* dict.pop(key, None)
DictPop(d, key) == [x \in DOMAIN d \ {key} |-> d[x]]
\* d[key] = v
DictSet(d, key, v) == (key :> v) @@ d

\* transport.py:296-307: fetch_tablist; up is whether the browser answers.
FetchTablist(s, up) ==
  IF up THEN [s |-> [s EXCEPT !.tablist = s.remote], err |-> ""]
  ELSE [s |-> s, err |-> "ChromeConnectFailure"]

\* transport.py:154-173: _get_tab_idx_for_key; idx 0 is Python's None, idx i the
\* i-th tab of the list.
GetTabIdx(s, key) ==
  IF key \notin DOMAIN s.tab_id_map THEN [idx |-> 0, err |-> ""]
  ELSE LET hits == {i \in 1 .. Len(s.tablist) : s.tablist[i].id = s.tab_id_map[key]}
       IN  IF hits = {} THEN [idx |-> 0, err |-> "ChromeTabNotFoundError"]
           ELSE [idx |-> CHOOSE i \in hits : \A j \in hits : i <= j, err |-> ""]

\* transport.py:222-239: __create_new_tab.  The browser adds a tab (with an
\* endpoint iff hasWs, listed first iff atHead); the key is bound to the first
\* listed tab no key is bound to.
CreateNewTab(s, key, hasWs, atHead, up) ==
  IF ~up THEN [s |-> s, err |-> "ChromeConnectFailure"]
  ELSE LET new == Tab(NewTabId(s.remote), hasWs)
           rem == IF atHead THEN <<new>> \o s.remote ELSE Append(s.remote, new)
           known == {s.tab_id_map[x] : x \in DOMAIN s.tab_id_map}
           unk == {i \in 1 .. Len(rem) : rem[i].id \notin known}
           s1 == [s EXCEPT !.remote = rem, !.tablist = rem]
       IN  IF unk = {} THEN [s |-> s1, err |-> ""]
           ELSE LET i == CHOOSE a \in unk : \A b \in unk : a <= b
                IN  [s |-> [s1 EXCEPT !.tab_id_map = DictSet(s.tab_id_map, key, rem[i].id)],
                     err |-> ""]

\* transport.py:241-257: __connect_to_tab.  wsOk is whether the websocket
\* handshake completes in time; a browser that has exited refuses the
\* connection, which create_connection reports with an error of its own.
ConnectToTab(s, key, wsOk, up) ==
  IF key \in DOMAIN s.soclist THEN [s |-> s, err |-> "AssertionError"]
  ELSE LET ti == GetTabIdx(s, key)
       IN  IF ti.err # "" THEN [s |-> s, err |-> ti.err]
           ELSE IF Len(s.tablist) = 0 THEN [s |-> s, err |-> "IndexError"]
           ELSE IF ~s.tablist[Len(s.tablist)].ws
                THEN [s |-> s, err |-> "ChromeConnectFailure"]
           ELSE IF ti.idx = 0 THEN [s |-> s, err |-> "TypeError"]
           ELSE IF ~s.tablist[ti.idx].ws THEN [s |-> s, err |-> "KeyError"]
           ELSE IF ~up THEN [s |-> s, err |-> "ConnectionRefusedError"]
           ELSE IF ~wsOk THEN [s |-> s, err |-> "ChromeCommunicationsError"]
           ELSE [s |-> [s EXCEPT !.soclist = DictSet(s.soclist, key, "connected")],
                 err |-> ""]

\* A variant of __close_tab that leaves the socket of the key in soclist.
CloseTabInnerKeepSocket(s, key, up) ==
  IF key \notin DOMAIN s.tab_id_map THEN [s |-> s, err |-> "KeyError"]
  ELSE IF ~up THEN [s |-> s, err |-> "ConnectionError"]
  ELSE LET id == s.tab_id_map[key]
           rem == SelectSeq(s.remote, LAMBDA t : t.id # id)
       IN  [s |-> [s EXCEPT !.remote = rem, !.tablist = rem,
                            !.tab_id_map = DictPop(s.tab_id_map, key)],
            err |-> ""]

\* transport.py:259-275: __close_tab.
CloseTabInner(s, key, up) ==
  IF key \notin DOMAIN s.tab_id_map THEN [s |-> s, err |-> "KeyError"]
  ELSE IF ~up THEN [s |-> s, err |-> "ConnectionError"]
  ELSE LET id == s.tab_id_map[key]
           rem == SelectSeq(s.remote, LAMBDA t : t.id # id)
       IN  [s |-> [s EXCEPT !.remote = rem, !.tablist = rem,
                            !.tab_id_map = DictPop(s.tab_id_map, key),
                            !.soclist = DictPop(s.soclist, key)],
            err |-> ""]

\* transport.py:190-212: the retry loop of connect, one definition per stage
\* of an iteration.  create is whether tab_idx was None when connect started,
\* fails the loop variable, made the number of tabs this call has created, k
\* the number of tabs the browser creates without an endpoint.
RECURSIVE ConnectLoop(_, _, _, _, _, _, _, _, _)

\* transport.py:212 and back to 190: after __close_tab in the handler.
ConnectRetry(cl, key, create, fails, made, k, atHead, wsOk, up) ==
  IF cl.err # ""
  THEN [s |-> cl.s, err |-> cl.err, retries |-> fails, made |-> made]
  ELSE ConnectLoop(cl.s, key, create, fails + 1, made, k, atHead, wsOk, up)

\* transport.py:198-212: after __connect_to_tab (or a failed create).
ConnectHandle(co, key, create, fails, made, k, atHead, wsOk, up) ==
  IF co.err = "" THEN [s |-> co.s, err |-> "", retries |-> fails, made |-> made]
  ELSE IF co.err # "ChromeConnectFailure"
       THEN [s |-> co.s, err |-> co.err, retries |-> fails, made |-> made]
  ELSE IF fails > ConnectFailMax
       THEN [s |-> co.s, err |-> co.err, retries |-> fails, made |-> made]
  ELSE ConnectRetry(CloseTabInner(co.s, key, up), key, create, fails, made,
                    k, atHead, wsOk, up)

\* transport.py:197: after the create of line 193-195.
ConnectTry(cr, key, create, fails, made, k, atHead, wsOk, up) ==
  ConnectHandle(IF cr.err # "" THEN cr ELSE ConnectToTab(cr.s, key, wsOk, up),
                key, create, fails, made, k, atHead, wsOk, up)

ConnectLoop(s, key, create, fails, made, k, atHead, wsOk, up) ==
  ConnectTry(IF create THEN CreateNewTab(s, key, made + 1 > k, atHead, up)
             ELSE [s |-> s, err |-> ""],
             key, create, fails, IF create /\ up THEN made + 1 ELSE made,
             k, atHead, wsOk, up)

\* transport.py:175-212: connect.
ConnectOp(s, key, k, atHead, wsOk, up) ==
  LET ti == GetTabIdx(s, key)
      ft == IF Len(s.tablist) = 0 THEN FetchTablist(s, up) ELSE [s |-> s, err |-> ""]
  IN  IF ti.err # "" THEN [s |-> s, err |-> ti.err, retries |-> 0, made |-> 0]
      ELSE IF ft.err # "" THEN [s |-> s, err |-> ft.err, retries |-> 0, made |-> 0]
      ELSE ConnectLoop(ft.s, key, ti.idx = 0, 0, 0, k, atHead, wsOk, up)

\* transport.py:287-293: close_websockets.
CloseWebsocketsOp(s) == [s EXCEPT !.soclist = EmptyDict]

\* -------------------------------------------------------------- messages
\* An inbound message: its "id" (NoId when it has none), the tab key of the
\* socket it was read from, and n, its place among the messages the manager
\* has read (which tells apart messages that are otherwise alike).
Msg(id, n, tab) == [id |-> id, n |-> n, tab |-> tab]
\* Python's None, as ___recv returns it on a socket timeout (transport.py:382).
PyNone == [id |-> NoId, n |-> 0, tab |-> ""]
IsNone(x) == x.n = 0

\* What one read of the socket meets: a message with the given id, a socket
\* timeout, or the connection closed.
\* The ids of inbound messages.  The code tests only whether a message has an
\* id, whether the id asked for is falsy (0) and whether the two are equal:
\* no id, 0 and one other id are all the cases.
MsgIds == {NoId, 0, 1}
FeedElems == [kind : {"msg"}, id : MsgIds] \cup [kind : {"timeout", "closed"}, id : {NoId}]
TimeoutElem == [kind |-> "timeout", id |-> NoId]
RECURSIVE SeqsUpTo(_, _)
SeqsUpTo(S, n) ==
  IF n = 0 THEN {<<>>}
  ELSE LET shorter == SeqsUpTo(S, n - 1)
       IN  shorter \cup {Append(q, e) : q \in {x \in shorter : Len(x) = n - 1}, e \in S}
\* The peer's script for one call: nothing is read after a close, and a
\* script does not end in a timeout (every read after its end times out).
Feeds(n) ==
  {f \in SeqsUpTo(FeedElems, n) :
     /\ \A i \in 1 .. Len(f) : f[i].kind = "closed" => i = Len(f)
     /\ Len(f) > 0 => f[Len(f)].kind # "timeout"}
NMsgs(f) == Cardinality({i \in 1 .. Len(f) : f[i].kind = "msg"})

\* transport.py:313-314: __check_open_socket after its first test, c1 being
\* the result of the connect of line 312 (or the state as it was).
CheckConnected(c1, key, k, atHead, wsOk, up) ==
  IF c1.err # "" THEN c1
  ELSE IF key \notin DOMAIN c1.s.soclist
       THEN [s |-> c1.s, err |-> "KeyError", retries |-> c1.retries, made |-> c1.made]
  ELSE IF c1.s.soclist[key] # "connected"
       THEN ConnectOp(c1.s, key, k, atHead, wsOk, up)
  ELSE c1

\* transport.py:309-314: __check_open_socket.
CheckOpenSocket(s, key, k, atHead, wsOk, up) ==
  CheckConnected(IF key \notin DOMAIN s.soclist
                 THEN ConnectOp(s, key, k, atHead, wsOk, up)
                 ELSE [s |-> s, err |-> "", retries |-> 0, made |-> 0],
                 key, k, atHead, wsOk, up)

\* transport.py:457-465: check_func of recv, the predicate for message_id X.
CheckFunc(X, message) ==
  IF X = IdNone THEN TRUE
  ELSE IF IsNone(message) THEN FALSE
  ELSE IF message.id # NoId THEN message.id = X
  ELSE FALSE

\* A predicate handed to recv_filtered: check_func of recv for an id, or one
\* that is False of everything.
KeyCheck(pred, message) ==
  IF pred.kind = "check_func" THEN CheckFunc(pred.X, message) ELSE FALSE

\* list.pop(idx)
ListPop(l, idx) == SubSeq(l, 1, idx - 1) \o SubSeq(l, idx + 1, Len(l))

\* transport.py:374-385: ___recv on the i-th read of a call.  n messages
\* were read before the call started, got holds this call's reads so far.
RecvRaw(feed, i, n, key, got) ==
  LET e == IF i <= Len(feed) THEN feed[i] ELSE TimeoutElem
      seen == Cardinality({j \in 1 .. Len(got) : ~IsNone(got[j])})
  IN  IF e.kind = "closed" THEN [err |-> "ChromeCommunicationsError", tmp |-> PyNone, d |-> 0]
      ELSE IF e.kind = "timeout" THEN [err |-> "", tmp |-> PyNone, d |-> WebsocketTimeout]
      ELSE [err |-> "", tmp |-> Msg(e.id, n + seen + 1, key), d |-> MsgDelay]

\* transport.py:421-430: the read loop of recv_filtered.
RECURSIVE RecvLoop(_, _, _, _, _, _, _, _, _)
RecvLoop(buf, pred, feed, i, elapsed, T, n, key, got) ==
  LET r == RecvRaw(feed, i, n, key, got)
      now == elapsed + r.d
      got1 == Append(got, r.tmp)
  IN  IF r.err # ""
      THEN [err |-> r.err, ret |-> PyNone, buf |-> buf, got |-> got,
            elapsed |-> elapsed, fromBuf |-> FALSE]
      ELSE IF KeyCheck(pred, r.tmp)
      THEN [err |-> "", ret |-> r.tmp, buf |-> buf, got |-> got1,
            elapsed |-> now, fromBuf |-> FALSE]
      ELSE IF now > T
      THEN [err |-> "", ret |-> PyNone, buf |-> Append(buf, r.tmp), got |-> got1,
            elapsed |-> now, fromBuf |-> FALSE]
      ELSE RecvLoop(Append(buf, r.tmp), pred, feed, i + 1, now, T, n, key, got1)

\* A variant of recv_filtered whose buffer scan looks only at the messages
\* read from the socket of its own tab key.
RecvFilteredOpTabScoped(buf, pred, feed, T, n, key) ==
  LET hits == {i \in 1 .. Len(buf) : buf[i].tab = key /\ KeyCheck(pred, buf[i])}
  IN  IF hits # {}
      THEN LET i == CHOOSE a \in hits : \A b \in hits : a <= b
           IN  [err |-> "", ret |-> buf[i], buf |-> ListPop(buf, i), got |-> <<>>,
                elapsed |-> 0, fromBuf |-> TRUE]
      ELSE RecvLoop(buf, pred, feed, 1, 0, T, n, key, <<>>)

\* transport.py:416-430: recv_filtered once the socket is open.
RecvFilteredOp(buf, pred, feed, T, n, key) ==
  LET hits == {i \in 1 .. Len(buf) : KeyCheck(pred, buf[i])}
  IN  IF hits # {}
      THEN LET i == CHOOSE a \in hits : \A b \in hits : a <= b
           IN  [err |-> "", ret |-> buf[i], buf |-> ListPop(buf, i), got |-> <<>>,
                elapsed |-> 0, fromBuf |-> TRUE]
      ELSE RecvLoop(buf, pred, feed, 1, 0, T, n, key, <<>>)

\* transport.py:448-467: recv once the socket is open.
RecvOp(buf, X, feed, T, n, key) ==
  LET hits == {i \in 1 .. Len(buf) :
                 /\ ~IsNone(buf[i])
                 /\ buf[i].id # NoId
                 /\ X # IdNone /\ X # 0
                 /\ buf[i].id = X}
  IN  IF hits # {}
      THEN LET i == CHOOSE a \in hits : \A b \in hits : a <= b
           IN  [err |-> "", ret |-> buf[i], buf |-> ListPop(buf, i), got |-> <<>>,
                elapsed |-> 0, fromBuf |-> TRUE]
      ELSE RecvFilteredOp(buf, [kind |-> "check_func", X |-> X], feed, T, n, key)

\* transport.py:479-482: the read loop of drain.
RECURSIVE DrainLoop(_, _, _, _, _, _)
DrainLoop(ret, feed, i, n, key, got) ==
  LET r == RecvRaw(feed, i, n, key, got)
  IN  IF r.err # "" THEN [err |-> r.err, rets |-> <<>>, got |-> got]
      ELSE IF IsNone(r.tmp) THEN [err |-> "", rets |-> ret, got |-> Append(got, r.tmp)]
      ELSE DrainLoop(Append(ret, r.tmp), feed, i + 1, n, key, Append(got, r.tmp))

\* A variant of drain that returns only what it reads from the socket.
DrainOpFreshOnly(buf, feed, n, key) == DrainLoop(<<>>, feed, 1, n, key, <<>>)

\* transport.py:470-483: drain; the buffer is popped empty before the reads.
DrainOp(buf, feed, n, key) == DrainLoop(buf, feed, 1, n, key, <<>>)

\* The messages among the results of a call's reads.
Reads(got) == SelectSeq(got, LAMBDA x : ~IsNone(x))

\* A variant of send that leaves self.msg_id as it was.
SendOpNoIncrement(mid, outcome) ==
  IF outcome = "ok" THEN [err |-> "", retId |-> mid, msg_id |-> mid]
  ELSE [err |-> "ChromeCommunicationsError", retId |-> NoId, msg_id |-> mid]

\* transport.py:348-371: send once the socket is open; outcome is what the
\* socket's send does.
SendOp(mid, outcome) ==
  IF outcome = "ok" THEN [err |-> "", retId |-> mid, msg_id |-> mid + 1]
  ELSE [err |-> "ChromeCommunicationsError", retId |-> NoId, msg_id |-> mid]

\* ------------------------------------------------------------- teardown
\* transport.py:122-145: close_chromium on a process handle crp; graceful is
\* whether a running browser exits within the 5 s wait after SIGINT.
\* release is whether line 145 (ACTIVE_PORTS.discard) is reached.
CloseChromiumOp(crp, graceful) ==
  IF crp = "unset" THEN [cr_proc |-> crp, err |-> "AttributeError", release |-> FALSE]
  ELSE IF crp = "running" /\ ~graceful
       THEN [cr_proc |-> "running", err |-> "TimeoutExpired", release |-> FALSE]
  ELSE [cr_proc |-> "exited", err |-> "", release |-> TRUE]

\* transport.py:485-492: __del__.  haslog is whether self.log was set.
\* raised is the exception that leaves __del__, "" when none does.
\* swallowed is the exception of close_chromium that line 489 catches.
DelOp(haslog, crp, graceful) ==
  IF ~haslog THEN [raised |-> "AttributeError", swallowed |-> "", discard |-> FALSE]
  ELSE [raised |-> "", swallowed |-> CloseChromiumOp(crp, graceful).err, discard |-> TRUE]

\* ----------------------------------------------------------- the record
\* What is recorded of a call: the operation, the manager and tab key it was
\* made on, the exception it ended with, and the inputs and counts of that call.
NoCall == [op |-> "none", m |-> 0, key |-> "", err |-> "", req |-> PortNone,
           \* of connect: the retries made, the number k of tabs the browser
           \* created without an endpoint, whether the websocket could be
           \* opened, whether the key was unbound and the browser answering
           retries |-> 0, k |-> 0, wsOk |-> TRUE, fresh |-> FALSE, up |-> FALSE,
           \* of a construction: the fetches of the tab list made, the sleeps
           \* between them, the number of fetches that fail before one succeeds
           \* and the length of the list the browser then reports
           polls |-> 0, sleeps |-> 0, failsBefore |-> 0, ntabs |-> 0,
           lastTab |-> FALSE,
           \* of a messaging call: the id send returned; the message_id and the
           \* timeout passed; the peer's script; the value returned (ret, or the
           \* list rets of drain); the length of the buffer before the call; the
           \* number of reads of the socket that ended in a timeout; the seconds
           \* the call took after its buffer scan; whether the value came out
           \* of the buffer
           retId |-> NoId, X |-> IdNone, T |-> 0, feed |-> <<>>, ret |-> PyNone,
           rets |-> <<>>, nbuf |-> 0, ntimeouts |-> 0, elapsed |-> 0,
           fromBuf |-> FALSE]

\* No __init__ is running on the slot.
IdleInit == [pc |-> "idle", port |-> PortNone, req |-> PortNone]

Live(m) == obj[m] = "live" /\ cr_proc[m] = "running"
Up(m) == cr_proc[m] = "running"

\* ------------------------------------------------------------------ Init
Init ==
  /\ ACTIVE_PORTS = {}
  /\ obj = [m \in Mgrs |-> "absent"]
  /\ port = [m \in Mgrs |-> PortNone]
  /\ cr_proc = [m \in Mgrs |-> "unset"]
  /\ tabs = [m \in Mgrs |-> NoTabs]
  /\ msg_id = [m \in Mgrs |-> 0]
  /\ messages = [m \in Mgrs |-> <<>>]
  /\ sent = [m \in Mgrs |-> <<>>]
  /\ nread = [m \in Mgrs |-> 0]
  /\ init = [m \in Mgrs |-> IdleInit]
  /\ last = NoCall

\* --------------------------------------------------------------- actions
\* transport.py:57: __init__ raises ReusedPortError; no attribute is set.
Refuse(m, req) ==
  /\ obj' = [obj EXCEPT ![m] = "failed"]
  /\ UNCHANGED <<ACTIVE_PORTS, port, cr_proc, tabs, msg_id, messages>>
  /\ last' = [NoCall EXCEPT !.op = "construct", !.m = m, !.req = req,
                            !.err = "ReusedPortError"]

\* transport.py:59-81: __init__ from ACTIVE_PORTS.add(port) on, with port p.
Claim(m, p, req, binaryFound, failsBefore, ntabs) ==
  LET l == LaunchProcess(binaryFound, failsBefore, ntabs)
  IN  /\ ACTIVE_PORTS' = ACTIVE_PORTS \cup {p}
      /\ port' = [port EXCEPT ![m] = p]
      /\ cr_proc' = [cr_proc EXCEPT ![m] = l.cr_proc]
      /\ tabs' = [tabs EXCEPT ![m] =
                    IF l.cr_proc = "running"
                    THEN LET f == FreshTabs(ntabs)
                         IN  IF l.fetched THEN [f EXCEPT !.tablist = f.remote] ELSE f
                    ELSE NoTabs]
      /\ obj' = [obj EXCEPT ![m] = IF l.err = "" THEN "live" ELSE "failed"]
      /\ msg_id' = [msg_id EXCEPT ![m] = 0]
      /\ messages' = [messages EXCEPT ![m] = <<>>]
      /\ last' = [NoCall EXCEPT !.op = "construct", !.m = m, !.req = req,
                                !.err = l.err, !.polls = l.polls,
                                !.sleeps = l.sleeps, !.failsBefore = failsBefore,
                                !.ntabs = ntabs]

\* transport.py:30-81: ChromeExecutionManager(binary, base_tab_key, port=req),
\* run without another thread in between.
Construct(m, req, binaryFound, failsBefore, ntabs) ==
  /\ obj[m] = "absent"
  /\ init[m].pc = "idle"
  /\ LET a == AllocPort(req, ACTIVE_PORTS)
     IN  IF a.err # "" THEN Refuse(m, req)
         ELSE Claim(m, a.port, req, binaryFound, failsBefore, ntabs)
  /\ UNCHANGED <<sent, nread, init>>

\* The same constructor as the steps other threads can run between.
\* transport.py:51-52: entry; `port` becomes 9222 when it is None.
InitBegin(m, req) ==
  /\ obj[m] = "absent"
  /\ init[m].pc = "idle"
  /\ init' = [init EXCEPT ![m] =
                IF req = PortNone
                THEN [pc |-> "scan", port |-> DefaultPort, req |-> req]
                ELSE [pc |-> "check", port |-> req, req |-> req]]
  /\ UNCHANGED <<ACTIVE_PORTS, obj, port, cr_proc, tabs, msgvars, last>>

\* transport.py:53-54: one test of the while loop, and its body.
InitScan(m) ==
  /\ init[m].pc = "scan"
  /\ init' = [init EXCEPT ![m] =
                IF @.port \in ACTIVE_PORTS THEN [@ EXCEPT !.port = @ + 1]
                ELSE [@ EXCEPT !.pc = "check"]]
  /\ UNCHANGED <<ACTIVE_PORTS, obj, port, cr_proc, tabs, msgvars, last>>

\* transport.py:56-57: the test for a claimed port.
InitCheck(m) ==
  /\ init[m].pc = "check"
  /\ IF init[m].port \in ACTIVE_PORTS
     THEN /\ Refuse(m, init[m].req)
          /\ init' = [init EXCEPT ![m] = IdleInit]
     ELSE /\ init' = [init EXCEPT ![m].pc = "add"]
          /\ UNCHANGED <<ACTIVE_PORTS, obj, port, cr_proc, tabs, msg_id, messages, last>>
  /\ UNCHANGED <<sent, nread>>

\* transport.py:59-81: the claim and the rest of __init__.
InitClaim(m, binaryFound, failsBefore, ntabs) ==
  /\ init[m].pc = "add"
  /\ Claim(m, init[m].port, init[m].req, binaryFound, failsBefore, ntabs)
  /\ init' = [init EXCEPT ![m] = IdleInit]
  /\ UNCHANGED <<sent, nread>>

\* transport.py:122-145: close_chromium().
CloseChromium(m, graceful) ==
  /\ obj[m] = "live"
  /\ LET c == CloseChromiumOp(cr_proc[m], graceful)
     IN  /\ cr_proc' = [cr_proc EXCEPT ![m] = c.cr_proc]
         /\ ACTIVE_PORTS' = IF c.release THEN ACTIVE_PORTS \ {port[m]} ELSE ACTIVE_PORTS
         /\ last' = [NoCall EXCEPT !.op = "close_chromium", !.m = m, !.err = c.err]
  /\ UNCHANGED <<obj, port, tabs, msgvars, init>>

\* transport.py:485-492: __del__(), run when the object is collected (also
\* one whose __init__ raised); the slot is free for a new object afterwards.
Del(m, graceful) ==
  /\ obj[m] \in {"live", "failed"}
  /\ LET d == DelOp(port[m] # PortNone, cr_proc[m], graceful)
     IN  /\ ACTIVE_PORTS' = IF d.discard THEN ACTIVE_PORTS \ {port[m]} ELSE ACTIVE_PORTS
         /\ last' = [NoCall EXCEPT !.op = "del", !.m = m, !.err = d.raised]
  /\ obj' = [obj EXCEPT ![m] = "absent"]
  /\ port' = [port EXCEPT ![m] = PortNone]
  /\ cr_proc' = [cr_proc EXCEPT ![m] = "unset"]
  /\ tabs' = [tabs EXCEPT ![m] = NoTabs]
  /\ msg_id' = [msg_id EXCEPT ![m] = 0]
  /\ messages' = [messages EXCEPT ![m] = <<>>]
  /\ sent' = [sent EXCEPT ![m] = <<>>]
  /\ nread' = [nread EXCEPT ![m] = 0]
  /\ UNCHANGED init

\* transport.py:175-212: connect(tab_key).
Connect(m, key, k, atHead, wsOk) ==
  /\ obj[m] = "live"
  /\ LET r == ConnectOp(tabs[m], key, k, atHead, wsOk, Up(m))
     IN  /\ tabs' = [tabs EXCEPT ![m] = r.s]
         /\ last' = [NoCall EXCEPT !.op = "connect", !.m = m, !.key = key,
                                   !.err = r.err, !.retries = r.retries, !.k = k,
                                   !.wsOk = wsOk, !.up = Up(m),
                                   !.fresh = key \notin DOMAIN tabs[m].tab_id_map]
  /\ UNCHANGED <<ACTIVE_PORTS, obj, port, cr_proc, msgvars, init>>

\* transport.py:277-285: close_tab(tab_key).
CloseTab(m, key, graceful) ==
  /\ obj[m] = "live"
  /\ LET c == CloseTabInner(tabs[m], key, Up(m))
         lastTab == c.err = "" /\ DOMAIN c.s.tab_id_map = {}
         cc == CloseChromiumOp(cr_proc[m], graceful)
     IN  /\ tabs' = [tabs EXCEPT ![m] = IF lastTab THEN CloseWebsocketsOp(c.s) ELSE c.s]
         /\ cr_proc' = [cr_proc EXCEPT ![m] = IF lastTab THEN cc.cr_proc ELSE @]
         /\ ACTIVE_PORTS' = IF lastTab /\ cc.release THEN ACTIVE_PORTS \ {port[m]}
                            ELSE ACTIVE_PORTS
         /\ last' = [NoCall EXCEPT !.op = "close_tab", !.m = m, !.key = key,
                                   !.err = IF c.err # "" THEN c.err
                                           ELSE IF lastTab THEN cc.err ELSE "",
                                   !.lastTab = lastTab]
  /\ UNCHANGED <<obj, port, msgvars, init>>

\* transport.py:287-293: close_websockets().
CloseWebsockets(m) ==
  /\ obj[m] = "live"
  /\ tabs[m].soclist # EmptyDict
  /\ tabs' = [tabs EXCEPT ![m] = CloseWebsocketsOp(@)]
  /\ last' = [NoCall EXCEPT !.op = "close_websockets", !.m = m]
  /\ UNCHANGED <<ACTIVE_PORTS, obj, port, cr_proc, msgvars, init>>

\* The peer drops the websocket of a tab key: soclist[key].connected turns
\* False (read at transport.py:313).
DropSocket(m, key) ==
  /\ obj[m] = "live"
  /\ key \in DOMAIN tabs[m].soclist
  /\ tabs[m].soclist[key] = "connected"
  /\ tabs' = [tabs EXCEPT ![m].soclist[key] = "dropped"]
  /\ last' = [NoCall EXCEPT !.op = "drop", !.m = m, !.key = key]
  /\ UNCHANGED <<ACTIVE_PORTS, obj, port, cr_proc, msgvars, init>>

\* The state a call leaves the tabs in: a read or send that met a closed
\* connection leaves the socket not connected.
AfterIo(s, key, err) ==
  IF err = "ChromeCommunicationsError" /\ key \in DOMAIN s.soclist
  THEN [s EXCEPT !.soclist[key] = "dropped"] ELSE s

\* transport.py:336-371: send(command, tab_key).
Send(m, key, k, atHead, wsOk, outcome) ==
  /\ obj[m] = "live"
  /\ Len(sent[m]) < MaxSends
  /\ LET co == CheckOpenSocket(tabs[m], key, k, atHead, wsOk, Up(m))
         so == SendOp(msg_id[m], outcome)
     IN  IF co.err # ""
         THEN /\ tabs' = [tabs EXCEPT ![m] = co.s]
              /\ UNCHANGED <<msg_id, sent>>
              /\ last' = [NoCall EXCEPT !.op = "send", !.m = m, !.key = key, !.err = co.err]
         ELSE /\ tabs' = [tabs EXCEPT ![m] =
                            IF outcome = "closed" THEN AfterIo(co.s, key, so.err) ELSE co.s]
              /\ msg_id' = [msg_id EXCEPT ![m] = so.msg_id]
              /\ sent' = [sent EXCEPT ![m] =
                            IF so.err = "" THEN Append(@, [id |-> so.retId, key |-> key])
                            ELSE @]
              /\ last' = [NoCall EXCEPT !.op = "send", !.m = m, !.key = key,
                                        !.err = so.err, !.retId = so.retId]
  /\ UNCHANGED <<ACTIVE_PORTS, obj, port, cr_proc, messages, nread, init>>

\* The reads a receiving call made of the peer's script, the failing one included.
Consumed(r) == Len(r.got) + (IF r.err = "ChromeCommunicationsError" THEN 1 ELSE 0)

\* transport.py:387-430 and 433-467: recv_filtered(keycheck, tab_key, T) and
\* recv(tab_key, X, T), which ends in recv_filtered (whose own
\* __check_open_socket then finds the socket open).  op is "recv", or
\* "recv_filtered_never" for a keycheck that is False of everything, or
\* "recv_filtered_any" for one that is True of everything.
Receive(m, key, k, atHead, wsOk, op, X, T, feed) ==
  /\ obj[m] = "live"
  /\ Len(messages[m]) <= MaxBuf
  /\ nread[m] + NMsgs(feed) <= MaxReads
  /\ LET co == CheckOpenSocket(tabs[m], key, k, atHead, wsOk, Up(m))
         r == IF op = "recv" THEN RecvOp(messages[m], X, feed, T, nread[m], key)
              ELSE RecvFilteredOp(messages[m],
                     [kind |-> IF op = "recv_filtered_never" THEN "never" ELSE "check_func",
                      X |-> IdNone], feed, T, nread[m], key)
     IN  IF co.err # ""
         THEN /\ feed = <<>>
              /\ tabs' = [tabs EXCEPT ![m] = co.s]
              /\ UNCHANGED <<messages, nread>>
              /\ last' = [NoCall EXCEPT !.op = op, !.m = m, !.key = key, !.err = co.err,
                                        !.X = X, !.T = T, !.nbuf = Len(messages[m])]
         ELSE /\ Consumed(r) >= Len(feed)
              /\ tabs' = [tabs EXCEPT ![m] = AfterIo(co.s, key, r.err)]
              /\ messages' = [messages EXCEPT ![m] = r.buf]
              /\ nread' = [nread EXCEPT ![m] = @ + Len(Reads(r.got))]
              /\ last' = [NoCall EXCEPT !.op = op, !.m = m, !.key = key, !.err = r.err,
                                        !.X = X, !.T = T, !.feed = feed, !.ret = r.ret,
                                        !.nbuf = Len(messages[m]),
                                        !.ntimeouts = Len(r.got) - Len(Reads(r.got)),
                                        !.elapsed = r.elapsed, !.fromBuf = r.fromBuf]
  /\ UNCHANGED <<ACTIVE_PORTS, obj, port, cr_proc, msg_id, sent, init>>

\* transport.py:433-467: recv(tab_key, message_id=X, timeout=T).
Recv(m, key, k, atHead, wsOk, X, T, feed) ==
  Receive(m, key, k, atHead, wsOk, "recv", X, T, feed)

\* transport.py:387-430: recv_filtered(keycheck, tab_key, timeout=T).
RecvFiltered(m, key, k, atHead, wsOk, never, T, feed) ==
  Receive(m, key, k, atHead, wsOk,
          IF never THEN "recv_filtered_never" ELSE "recv_filtered_any", IdNone, T, feed)

\* transport.py:470-483: drain(tab_key).  The buffer has been popped empty
\* when the first read runs; a socket that is not connected raises on it.
Drain(m, key, feed) ==
  /\ obj[m] = "live"
  /\ nread[m] + NMsgs(feed) <= MaxReads
  /\ LET s == tabs[m]
         has == key \in DOMAIN s.soclist
         script == IF has /\ s.soclist[key] # "connected"
                   THEN <<[kind |-> "closed", id |-> NoId]>> ELSE feed
         r == IF has THEN DrainOp(messages[m], script, nread[m], key)
              ELSE [err |-> "KeyError", rets |-> <<>>, got |-> <<>>]
     IN  /\ IF has /\ s.soclist[key] = "connected" THEN Consumed(r) >= Len(feed)
            ELSE feed = <<>>
         /\ tabs' = [tabs EXCEPT ![m] = AfterIo(s, key, r.err)]
         /\ messages' = [messages EXCEPT ![m] = <<>>]
         /\ nread' = [nread EXCEPT ![m] = @ + Len(Reads(r.got))]
         /\ last' = [NoCall EXCEPT !.op = "drain", !.m = m, !.key = key, !.err = r.err,
                                   !.feed = feed, !.rets = r.rets,
                                   !.nbuf = Len(messages[m])]
  /\ UNCHANGED <<ACTIVE_PORTS, obj, port, cr_proc, msg_id, sent, init>>

\* transport.py:317-334: synchronous_command(command, tab_key): the tab index
\* is looked up for the log, then send, then recv for the id send returned,
\* with recv's default timeout.
SynchronousCommand(m, key, k, atHead, wsOk, outcome, feed) ==
  /\ obj[m] = "live"
  /\ Len(sent[m]) < MaxSends
  /\ Len(messages[m]) <= MaxBuf
  /\ nread[m] + NMsgs(feed) <= MaxReads
  /\ LET ti == GetTabIdx(tabs[m], key)
         co == CheckOpenSocket(tabs[m], key, k, atHead, wsOk, Up(m))
         so == SendOp(msg_id[m], outcome)
         r == RecvOp(messages[m], so.retId, feed, DefaultTimeout, nread[m], key)
     IN  IF ti.err # ""
         THEN /\ feed = <<>>
              /\ UNCHANGED <<tabs, msg_id, sent, messages, nread>>
              /\ last' = [NoCall EXCEPT !.op = "synchronous_command", !.m = m, !.key = key,
                                        !.err = ti.err, !.nbuf = Len(messages[m])]
         ELSE IF co.err # "" \/ so.err # ""
         THEN /\ feed = <<>>
              /\ tabs' = [tabs EXCEPT ![m] =
                            IF co.err = "" /\ outcome = "closed"
                            THEN AfterIo(co.s, key, so.err) ELSE co.s]
              /\ UNCHANGED <<msg_id, sent, messages, nread>>
              /\ last' = [NoCall EXCEPT !.op = "synchronous_command", !.m = m, !.key = key,
                                        !.err = IF co.err # "" THEN co.err ELSE so.err,
                                        !.nbuf = Len(messages[m])]
         ELSE /\ Consumed(r) >= Len(feed)
              /\ tabs' = [tabs EXCEPT ![m] = AfterIo(co.s, key, r.err)]
              /\ msg_id' = [msg_id EXCEPT ![m] = so.msg_id]
              /\ sent' = [sent EXCEPT ![m] = Append(@, [id |-> so.retId, key |-> key])]
              /\ messages' = [messages EXCEPT ![m] = r.buf]
              /\ nread' = [nread EXCEPT ![m] = @ + Len(Reads(r.got))]
              /\ last' = [NoCall EXCEPT !.op = "synchronous_command", !.m = m, !.key = key,
                                        !.err = r.err, !.retId = so.retId, !.X = so.retId,
                                        !.T = DefaultTimeout, !.feed = feed, !.ret = r.ret,
                                        !.nbuf = Len(messages[m]),
                                        !.ntimeouts = Len(r.got) - Len(Reads(r.got)),
                                        !.elapsed = r.elapsed, !.fromBuf = r.fromBuf]
  /\ UNCHANGED <<ACTIVE_PORTS, obj, port, cr_proc, init>>

\* The browser's behaviour matters to connect only when connect creates tabs,
\* which it does for a key that is not bound while the browser answers.
Creates(m, key) == key \notin DOMAIN tabs[m].tab_id_map /\ Up(m)
OmitChoices(m, key) == IF Creates(m, key) THEN 0 .. MaxOmit ELSE {0}
OrderChoices(m, key) == IF Creates(m, key) THEN BOOLEAN ELSE {FALSE}

\* ---------------------------------------------------------------- specs
\* The lifecycle of several managers, each with one tab key and a browser
\* that answers as soon as it runs, gives every tab its endpoint and exits in
\* time when its last tab is closed.
Next ==
  \/ \E m \in Mgrs, req \in ReqPorts, bf \in BOOLEAN : Construct(m, req, bf, 0, 1)
  \/ \E m \in Mgrs, g \in BOOLEAN : CloseChromium(m, g)
  \/ \E m \in Mgrs : Del(m, TRUE)
  \/ \E m \in Mgrs : Connect(m, "A", 0, FALSE, TRUE)
  \/ \E m \in Mgrs : CloseTab(m, "A", TRUE)

Spec == Init /\ [][Next]_vars

\* Several threads constructing managers, a thread switch being possible
\* between any two steps of __init__, with teardown in between.
NextConc ==
  \/ \E m \in Mgrs, req \in ReqPorts : InitBegin(m, req)
  \/ \E m \in Mgrs : InitScan(m)
  \/ \E m \in Mgrs : InitCheck(m)
  \/ \E m \in Mgrs : InitClaim(m, TRUE, 0, 1)
  \/ \E m \in Mgrs, g \in BOOLEAN : CloseChromium(m, g)
  \/ \E m \in Mgrs, g \in BOOLEAN : Del(m, g)

SpecConc == Init /\ [][NextConc]_vars

\* One manager with all tab keys, against a browser that may fail to start,
\* omit endpoints, list new tabs first or last, and have its websockets
\* closed or dropped.
NextTabs ==
  \/ \E bf \in BOOLEAN, fb \in 0 .. MaxFails, nt \in 0 .. 1 :
       Construct(1, PortNone, bf, fb, nt)
  \/ \E g \in BOOLEAN : CloseChromium(1, g)
  \/ \E g \in BOOLEAN : Del(1, g)
  \/ \E key \in TabKeys, w \in BOOLEAN :
       \E k \in OmitChoices(1, key), h \in OrderChoices(1, key) : Connect(1, key, k, h, w)
  \/ \E key \in TabKeys, g \in BOOLEAN : CloseTab(1, key, g)
  \/ CloseWebsockets(1)
  \/ \E key \in TabKeys : DropSocket(1, key)

SpecTabs == Init /\ [][NextTabs]_vars

\* One manager sending over the sockets of its tab keys, against a browser
\* that gives every tab its endpoint.
SendOutcomes == {"ok", "timeout", "closed"}
AllFeeds == Feeds(MaxFeed)
\* The peer's script for a synchronous command: its answer or another
\* message, a closed connection, or nothing.
AnswerFeeds == {f \in AllFeeds : Len(f) <= 1}
NextSend ==
  \/ Construct(1, PortNone, TRUE, 0, 1)
  \/ \E key \in TabKeys, o \in SendOutcomes : Send(1, key, 0, FALSE, TRUE, o)
  \/ \E key \in TabKeys, o \in SendOutcomes, feed \in AnswerFeeds :
        SynchronousCommand(1, key, 0, FALSE, TRUE, o, feed)
  \/ \E key \in TabKeys : DropSocket(1, key)
  \/ \E g \in BOOLEAN : Del(1, g)

SpecSend == Init /\ [][NextSend]_vars

\* One manager receiving over the socket of one tab key.
Timeouts == {ShortTimeout, LongTimeout}
\* The message_id arguments of recv: None or an id.
AskIds == {IdNone} \cup (MsgIds \ {NoId})
MsgKeys == {"A"}
NextMsg ==
  \/ Construct(1, PortNone, TRUE, 0, 1)
  \/ \E key \in MsgKeys, X \in AskIds, T \in Timeouts,
        feed \in AllFeeds : Recv(1, key, 0, FALSE, TRUE, X, T, feed)
  \/ \E key \in MsgKeys, T \in Timeouts, feed \in AllFeeds :
        RecvFiltered(1, key, 0, FALSE, TRUE, TRUE, T, feed)
  \/ \E key \in MsgKeys, feed \in AllFeeds : Drain(1, key, feed)

SpecMsg == Init /\ [][NextMsg]_vars

\* One manager receiving over the sockets of two tab keys, each call meeting
\* at most one message and made with the short timeout.
NextShare ==
  \/ Construct(1, PortNone, TRUE, 0, 1)
  \/ \E key \in TabKeys, X \in AskIds, feed \in AnswerFeeds :
        Recv(1, key, 0, FALSE, TRUE, X, ShortTimeout, feed)
  \/ \E key \in TabKeys, feed \in AnswerFeeds :
        RecvFiltered(1, key, 0, FALSE, TRUE, FALSE, ShortTimeout, feed)
  \/ \E key \in TabKeys, feed \in AnswerFeeds : Drain(1, key, feed)

SpecShare == Init /\ [][NextShare]_vars

\* --------------------------------------------------------------- claims
\* The smallest element of a non-empty set of numbers.
Min(S) == CHOOSE a \in S : \A b \in S : a <= b

\* C1: no two live manager instances (constructed, browser running) hold the
\* same debug port, whatever constructions, close_chromium calls, close_tab
\* calls and destructor runs came before.
C1_NoSharedPort ==
  \A a, b \in Mgrs : (a # b /\ Live(a) /\ Live(b)) => port[a] # port[b]

\* C2: a construction with an explicit port that is in the claimed set ends
\* in ReusedPortError, leaves the claimed set as it was, sets no port on the
\* object and launches no browser.
C2_ExplicitClaimedPortRefused ==
  [][\A m \in Mgrs :
       (/\ obj[m] = "absent" /\ obj'[m] # "absent"
        /\ last'.op = "construct" /\ last'.m = m
        /\ last'.req # PortNone /\ last'.req \in ACTIVE_PORTS)
       => (/\ last'.err = "ReusedPortError"
           /\ ACTIVE_PORTS' = ACTIVE_PORTS
           /\ port'[m] = PortNone
           /\ cr_proc'[m] = "unset")]_vars

\* C2 (witness): a construction with an explicit port that was claimed has
\* just been refused, the port still being claimed.
C2_Witness ==
  /\ last.op = "construct" /\ last.err = "ReusedPortError"
  /\ last.req \in ExplicitPorts /\ last.req \in ACTIVE_PORTS
  /\ obj[last.m] = "failed" /\ cr_proc[last.m] = "unset"

\* C3: a construction with port=None never ends in ReusedPortError, claims
\* the smallest port from 9222 up that is not in the claimed set, and that
\* port is the port of no other live manager at that moment.
C3_NonePortFreeAndUnheld ==
  [][\A m \in Mgrs :
       (/\ obj[m] = "absent" /\ obj'[m] # "absent"
        /\ last'.op = "construct" /\ last'.m = m /\ last'.req = PortNone)
       => (/\ last'.err # "ReusedPortError"
           /\ port'[m] >= DefaultPort
           /\ port'[m] \notin ACTIVE_PORTS
           /\ \A p \in DefaultPort .. port'[m] - 1 : p \in ACTIVE_PORTS
           /\ \A b \in Mgrs \ {m} : Live(b) => port[b] # port'[m])]_vars

\* C4: managers constructed by concurrent threads, whatever the interleaving
\* of the steps of their constructors and of teardown, never end up live on
\* the same port.
C4_ConcurrentDistinctPorts ==
  \A a \in Mgrs : \A b \in Mgrs \ {a} :
    (obj[a] = "live" /\ obj[b] = "live" /\ port[a] = port[b])
    => (cr_proc[a] # "running" \/ cr_proc[b] # "running")

\* C5: the ids the send calls of one manager returned are 0, 1, 2, ... in
\* call order, whatever tab keys the calls were made on, and self.msg_id is
\* the number of ids returned.
C5_SendIdsCount ==
  \A m \in Mgrs :
    /\ \A i \in 1 .. Len(sent[m]) : sent[m][i].id = i - 1
    /\ obj[m] = "live" => msg_id[m] = Len(sent[m])

\* C5 (witness): a manager has sent on one tab key and then on another.
C5_Witness ==
  /\ last.op = "send" /\ last.err = ""
  /\ Len(sent[last.m]) >= 2
  /\ sent[last.m][1].key # sent[last.m][2].key

\* C6: a recv for id X that returns a message returns one with id X; the
\* messages it read and passed over are in the buffer afterwards in arrival
\* order; and a recv whose filter matches a buffered message returns the
\* first such message from the buffer, without a read of the socket.
C6_RecvMatchAndBufferOrder ==
  [][(last'.op = "recv" /\ last'.err = "")
     => LET m == last'.m
            buf == messages[m]
            hits == {i \in 1 .. Len(buf) :
                       ~IsNone(buf[i]) /\ CheckFunc(last'.X, buf[i])}
            fresh == SelectSeq(messages'[m], LAMBDA x : x.n > nread[m])
        IN  /\ (last'.X # IdNone /\ ~IsNone(last'.ret)) => last'.ret.id = last'.X
            /\ \A i \in 1 .. Len(fresh) - 1 : fresh[i].n < fresh[i + 1].n
            /\ hits # {} => /\ last'.fromBuf
                            /\ last'.ret = buf[Min(hits)]
                            /\ messages'[m] = ListPop(buf, Min(hits))
                            /\ nread'[m] = nread[m]]_vars

\* C7: a drain that returns has returned the buffer as it was, in its order,
\* followed by the messages read from the socket in arrival order, and has
\* left the buffer empty: m buffered and n arriving messages make m + n.
C7_DrainBufferThenFresh ==
  [][(last'.op = "drain" /\ last'.err = "")
     => LET m == last'.m
            buf == messages[m]
            rets == last'.rets
            n == NMsgs(last'.feed)
        IN  /\ messages'[m] = <<>>
            /\ Len(rets) = Len(buf) + n
            /\ Len(Reads(rets)) = Len(Reads(buf)) + n
            /\ SubSeq(rets, 1, Len(buf)) = buf
            /\ \A i \in 1 .. n :
                 rets[Len(buf) + i] = Msg(last'.feed[i].id, nread[m] + i, last'.key)
            /\ nread'[m] = nread[m] + n]_vars

\* C7 (witness): a drain has returned buffered messages followed by messages
\* it read.
C7_Witness ==
  /\ last.op = "drain" /\ last.err = ""
  /\ last.nbuf >= 1 /\ Len(last.rets) > last.nbuf
  /\ \E i \in 1 .. last.nbuf : ~IsNone(last.rets[i])
  /\ messages[last.m] = <<>>

\* C8: a close_tab that empties the binding table ends normally with every
\* websocket closed, the browser process exited and the manager's port out
\* of the claimed set; any other close_tab leaves process and claimed set
\* as they were.
C8_LastTabShutsDownAndReleases ==
  [][last'.op = "close_tab"
     => LET m == last'.m
        IN  IF last'.lastTab
            THEN /\ last'.err = ""
                 /\ DOMAIN tabs'[m].soclist = {}
                 /\ cr_proc'[m] = "exited"
                 /\ port[m] \notin ACTIVE_PORTS'
            ELSE cr_proc' = cr_proc /\ ACTIVE_PORTS' = ACTIVE_PORTS]_vars

\* C9: connect on an unbound key, the browser answering and omitting the
\* endpoint of the first k tabs it creates: for k <= 7 it returns after
\* exactly k retries with the key bound and connected; for larger k it makes
\* exactly 7 retries and raises ChromeConnectFailure.
C9_RetriesThenConnected ==
  (last.op = "connect" /\ last.fresh /\ last.up /\ last.wsOk)
  => LET s == tabs[last.m]
     IN  IF last.k <= ConnectFailMax + 1
         THEN /\ last.err = ""
              /\ last.retries = last.k
              /\ last.key \in DOMAIN s.tab_id_map
              /\ last.key \in DOMAIN s.soclist
              /\ s.soclist[last.key] = "connected"
         ELSE /\ last.err = "ChromeConnectFailure"
              /\ last.retries = ConnectFailMax + 1

\* C10: recv_filtered with a keycheck that matches nothing and timeout T,
\* on a connection that stays open, returns None no earlier than T seconds
\* after it started and no later than one message read after that.
C10_NeverMatchingReturnsAtDeadline ==
  (last.op = "recv_filtered_never" /\ last.err = "")
  => (/\ IsNone(last.ret)
      /\ last.elapsed >= last.T
      /\ last.elapsed <= last.T + MsgDelay)

\* C11: a send, recv or recv_filtered (or a synchronous command, which starts
\* with a send) on a bound key whose socket is in soclist but reports not
\* connected, the browser running, reconnects the key: the call does not end
\* in the AssertionError of a connection entry that already exists, the key
\* keeps its socket, and when the call returns the socket is connected.
C11_DroppedSocketReconnects ==
  [][(/\ last'.op \in {"send", "synchronous_command", "recv",
                       "recv_filtered_never", "recv_filtered_any"}
      /\ last'.key \in DOMAIN tabs[last'.m].tab_id_map
      /\ last'.key \in DOMAIN tabs[last'.m].soclist
      /\ tabs[last'.m].soclist[last'.key] = "dropped"
      /\ Up(last'.m))
     => (/\ last'.err # "AssertionError"
         /\ last'.key \in DOMAIN tabs'[last'.m].soclist
         /\ last'.err = "" => tabs'[last'.m].soclist[last'.key] = "connected")]_vars

\* C12: when close_chromium ends, however it ends (the browser exiting within
\* the 5 second wait or not, the process having exited before), the browser
\* process is no longer running and the manager's port is out of the claimed
\* set.
C12_CloseChromiumAlwaysReleases ==
  [][last'.op = "close_chromium"
     => (/\ cr_proc'[last'.m] = "exited"
         /\ port[last'.m] \notin ACTIVE_PORTS')]_vars

\* C13: a launch whose binary is found fetches the tab list at most 10
\* times.  When fewer than 10 fetches fail before one succeeds, every failed
\* fetch is followed by one sleep and the first success ends the polling:
\* with an empty list the launch fails with ChromeStartupException, otherwise
\* it succeeds.  When the 10th fetch fails too, its ChromeConnectFailure is
\* propagated after 10 fetches and 9 sleeps.
C13_ReadinessPolling ==
  (last.op = "construct" /\ last.err \notin {"ReusedPortError", "RuntimeError"})
  => /\ last.polls <= PollAttempts
     /\ IF last.failsBefore >= PollAttempts
        THEN /\ last.err = "ChromeConnectFailure"
             /\ last.polls = PollAttempts
             /\ last.sleeps = PollAttempts - 1
        ELSE /\ last.polls = last.failsBefore + 1
             /\ last.sleeps = last.failsBefore
             /\ last.err = IF last.ntabs = 0 THEN "ChromeStartupException" ELSE ""

\* C13 (witness): a launch has failed on an empty tab list that the 10th
\* fetch, the first to succeed, returned.
C13_Witness ==
  /\ last.op = "construct" /\ last.err = "ChromeStartupException"
  /\ last.failsBefore = PollAttempts - 1 /\ last.polls = PollAttempts
  /\ last.ntabs = 0
  /\ obj[last.m] = "failed" /\ cr_proc[last.m] = "running"

\* C14: no exception leaves __del__, whatever state the object is in when it
\* runs: constructed, shut down by close_chromium or by the close_tab of its
\* last tab, or left by a construction that raised.
C14_DestructorNeverRaises ==
  last.op = "del" => last.err = ""

\* C15: the call that follows a completed close_tab(tab_key) on the same
\* manager, whichever call it is, leaves the key without a binding and
\* without a connection (the first step of "closed is terminal for the key").
C15_ClosedIsTerminal ==
  [][(last.op = "close_tab" /\ last.err = "")
     => (/\ last.key \notin DOMAIN tabs'[last.m].tab_id_map
         /\ last.key \notin DOMAIN tabs'[last.m].soclist)]_vars

\* C16: in every state, every tab key that has a socket in soclist has a
\* binding in tab_id_map.
C16_ConnectionImpliesBinding ==
  \A m \in Mgrs : DOMAIN tabs[m].soclist \subseteq DOMAIN tabs[m].tab_id_map

\* C16 (witness): a connect has failed after a retry, in which it closed and
\* re-created the tab of its key, while another key is connected.
C16_Witness ==
  /\ last.op = "connect" /\ last.err # "" /\ last.retries >= 1
  /\ DOMAIN tabs[last.m].soclist # {}
  /\ last.key \notin DOMAIN tabs[last.m].soclist

\* C17: in every state the pending buffer holds messages read from a
\* connection only: no entry is the None that a read ending in a socket
\* timeout returns.
C17_BufferHoldsOnlyMessages ==
  \A m \in Mgrs : \A i \in 1 .. Len(messages[m]) : ~IsNone(messages[m][i])

\* C18: connect on a key that is bound to a listed tab and has no socket,
\* the browser running and the websocket handshake completing: when the
\* record of the bound tab carries an endpoint the call returns with the key
\* connected, and when it carries none the call fails with
\* ChromeConnectFailure, whatever the records of the other tabs carry.
C18_BoundTabEndpointDecides ==
  [][(/\ last'.op = "connect" /\ last'.up /\ last'.wsOk
      /\ last'.key \in DOMAIN tabs[last'.m].tab_id_map
      /\ last'.key \notin DOMAIN tabs[last'.m].soclist
      /\ GetTabIdx(tabs[last'.m], last'.key).idx > 0)
     => LET s == tabs[last'.m]
            rec == s.tablist[GetTabIdx(s, last'.key).idx]
        IN  IF rec.ws
            THEN /\ last'.err = ""
                 /\ last'.key \in DOMAIN tabs'[last'.m].soclist
                 /\ tabs'[last'.m].soclist[last'.key] = "connected"
                 /\ tabs'[last'.m].tab_id_map[last'.key] = rec.id
            ELSE last'.err = "ChromeConnectFailure"]_vars

\* C19: the buffer scan of a receiving call does not look at the tab a
\* buffered message was read from.  A recv or recv_filtered that returns,
\* made for any tab key while the buffer holds an entry its filter is true
\* of, returns the first such entry out of the buffer, and a drain that
\* returns starts its result with the whole buffer, whichever tab's socket
\* the entries were read from.
C19_BufferSharedAcrossTabs ==
  [][(last'.op \in {"recv", "recv_filtered_any", "drain"} /\ last'.err = "")
     => LET buf == messages[last'.m]
            hits == {i \in 1 .. Len(buf) : CheckFunc(last'.X, buf[i])}
        IN  IF last'.op = "drain"
            THEN /\ Len(last'.rets) >= Len(buf)
                 /\ SubSeq(last'.rets, 1, Len(buf)) = buf
            ELSE hits # {} => /\ last'.fromBuf
                              /\ last'.ret = buf[Min(hits)]
                              /\ messages'[last'.m] = ListPop(buf, Min(hits))]_vars

\* C19 (witness): a recv or recv_filtered made for one tab key has returned,
\* out of the buffer, a message that was read from the socket of another.
C19_Witness ==
  /\ last.op \in {"recv", "recv_filtered_any"} /\ last.err = ""
  /\ last.fromBuf /\ ~IsNone(last.ret)
  /\ last.ret.tab # last.key

\* C20: no call loses or duplicates an inbound message.  Over every
\* receiving call, raising or not: the messages in the buffer afterwards and
\* the messages the call returned are, each once, the messages that were in
\* the buffer before and the messages the call read; and the messages kept
\* from the old buffer are in their old order.
C20_NoMessageLostOrDuplicated ==
  [][last'.op \in {"recv", "recv_filtered_never", "recv_filtered_any", "drain",
                   "synchronous_command"}
     => LET m == last'.m
            old == Reads(messages[m])
            new == Reads(messages'[m])
            out == IF last'.op = "drain" THEN Reads(last'.rets)
                   ELSE IF IsNone(last'.ret) THEN <<>> ELSE <<last'.ret>>
            Ns(q) == {q[i].n : i \in 1 .. Len(q)}
        IN  /\ Ns(new) \cup Ns(out) = Ns(old) \cup (nread[m] + 1 .. nread'[m])
            /\ Ns(new) \cap Ns(out) = {}
            /\ Cardinality(Ns(new)) = Len(new)
            /\ Cardinality(Ns(out)) = Len(out)
            /\ SelectSeq(new, LAMBDA x : x.n \in Ns(old))
                 = SelectSeq(old, LAMBDA x : x.n \in Ns(new))]_vars

====
